---- MODULE Spec2Model ----
(***************************************************************************)
(* A model of the k-d tree base of the spatial library                     *)
(* (src/bits/spatial_kdtree_base.hpp) and of the facade constructors of    *)
(* pointmap.hpp and frozen_pointset.hpp.                                   *)
(*                                                                         *)
(* Pointers are integers: Null is the null pointer, a positive number n is *)
(* the address of node n, and the negative number -t is the address of the *)
(* header node embedded in tree object t.                                  *)
(***************************************************************************)
EXTENDS Integers, FiniteSets, Sequences, TLC

\* ------------------------------------------------------------------ bounds
NumTrees == 2
MaxNodes == 3
MaxDim == 2

Trees == 1..NumTrees
Nodes == 1..MaxNodes

\* ---------------------------------------------------------------- pointers
Null == 0
Hdr(t) == 0 - t
IsHdr(p) == p < 0
IsNode(p) == p > 0
TreeOf(p) == 0 - p

\* The collaborators a tree base is constructed with: a rank, a comparator
\* and an allocator. The two choices differ in all three.
Collaborators ==
  { [rank |-> 1, compare |-> "lessA", alloc |-> "allocA"],
    [rank |-> 2, compare |-> "lessB", alloc |-> "allocB"] }

VARIABLES
  m_impl,   \* per tree: rank, compare, alloc and the four header links
  life,     \* per tree: "unborn", "alive" or "destroyed"
  node,     \* per node: the parent, left and right links
  heap,     \* per node: its memory state and the count of each event on it
  last,     \* the last operation, its arguments, outcome and before-state
  made,     \* the last facade construction and its outcome
  kd,       \* a k-d tree with its keys: flavor, rank, root, keys and links
  it        \* the iterator or query at work on kd, and what it has yielded

vars == <<m_impl, life, node, heap, last, made, kd, it>>

\* ------------------------------------------------------- Implementation
\* Implementation::initialize(): all four header links point at the header.
initialize(impl, t) ==
  [impl EXCEPT ![t].parent = Hdr(t),
               ![t].left = Hdr(t),
               ![t].right = Hdr(t),
               ![t].leftmost = Hdr(t)]

NoImpl ==
  [rank |-> 0, compare |-> "none", alloc |-> "none",
   parent |-> Null, left |-> Null, right |-> Null, leftmost |-> Null]

\* Implementation(rank, compare, alloc): stores the three, then initialize().
Implementation(impl, t, rank, compare, alloc) ==
  initialize([impl EXCEPT ![t] = [NoImpl EXCEPT !.rank = rank,
                                                !.compare = compare,
                                                !.alloc = alloc]], t)

\* Kdtree_base(rank, compare, alloc)
Kdtree_base(impl, t, rank, compare, alloc) ==
  Implementation(impl, t, rank, compare, alloc)

\* ------------------------------------------------------------- accessors
get_header(t) == Hdr(t)
get_root(impl, t) == impl[t].parent
get_leftmost(impl, t) == impl[t].leftmost
get_rightmost(impl, t) == impl[t].right

empty(impl, t) == get_root(impl, t) = get_header(t)
begin(impl, t) == get_leftmost(impl, t)
end(impl, t) == get_header(t)

NoNode == [parent |-> Null, left |-> Null, right |-> Null]
NoMem == [st |-> "unused", allocated |-> 0, deallocated |-> 0,
          constructed |-> 0, destroyed |-> 0]
NotMade == [facade |-> "none", sig |-> "none", R |-> 0, dim |-> 0,
            compare |-> "none", alloc |-> "none", tree |-> 0,
            thrown |-> "none"]

\* Event counts saturate here, so that a repeated event stays visible.
Bump(k) == IF k < 2 THEN k + 1 ELSE k

\* ------------------------------------------------------------ node graph
\* The nodes reached from a set of nodes by one more left or right link.
Step(nd, S) ==
  S \cup { p \in Nodes : \E n \in S : nd[n].left = p \/ nd[n].right = p }

RECURSIVE Closure(_, _, _)
Closure(nd, S, k) ==
  LET T == Step(nd, S)
  IN IF k = 0 \/ T = S THEN S ELSE Closure(nd, T, k - 1)

\* The nodes of tree t: what its header's parent link (the root) reaches.
NodesOf(impl, nd, t) ==
  IF IsNode(get_root(impl, t))
    THEN Closure(nd, {get_root(impl, t)}, MaxNodes)
    ELSE {}

\* *p.parent = v, for p the address of a node or of a header.
StoreParent(s, p, v) ==
  CASE IsNode(p) -> [s EXCEPT !.node[p].parent = v]
    [] IsHdr(p) -> [s EXCEPT !.impl[TreeOf(p)].parent = v]
    [] OTHER -> s

\* ------------------------------------------------------------- allocator
\* Node_allocator::allocate(1): the next unused piece of node memory.
Fresh(h) == { n \in Nodes : h[n].st = "unused" /\
                            \A m \in Nodes : m < n => h[m].st # "unused" }

allocate(h, n) ==
  [h EXCEPT ![n].st = "raw", ![n].allocated = Bump(@)]

deallocate(h, n) ==
  [h EXCEPT ![n].st = "released", ![n].deallocated = Bump(@)]

construct(h, n) ==
  [h EXCEPT ![n].st = "live", ![n].constructed = Bump(@)]

destroy(h, n) ==
  [h EXCEPT ![n].st = "raw", ![n].destroyed = Bump(@)]

\* safe_allocator: the guard is the pair of the heap and the pointer it holds.
safe_allocator(h, n) == [heap |-> allocate(h, n), ptr |-> n]

\* release() that leaves the guard's pointer set.
safe_allocator_release_KeepsPtr(g) == g

safe_allocator_release(g) == [g EXCEPT !.ptr = Null]

safe_allocator_dtor(g) ==
  IF g.ptr # Null THEN deallocate(g.heap, g.ptr) ELSE g.heap

\* create_node that releases the guard before it constructs the key and
\* returns the node although the construction threw.
create_node_ReturnsRaw(h, n, outcome) ==
  IF outcome = "bad_alloc"
    THEN [heap |-> h, reserved |-> Null, ret |-> Null, exc |-> "AllocFailed"]
    ELSE LET safe == safe_allocator(h, n) IN
         IF outcome = "construct_throws"
           THEN [heap |-> safe.heap, reserved |-> n, ret |-> safe.ptr,
                 exc |-> "ConstructFailed"]
           ELSE [heap |-> construct(safe.heap, safe.ptr), reserved |-> n,
                 ret |-> safe.ptr, exc |-> "none"]

\* create_node(x). outcome says what the allocator and the key's copy
\* constructor do: "bad_alloc" (allocate throws), "construct_throws" or
\* "ok". The result is the heap, the memory the guard reserved, the
\* pointer returned (Null when an exception leaves the function) and the
\* exception.
create_node(h, n, outcome) ==
  IF outcome = "bad_alloc"
    THEN [heap |-> h, reserved |-> Null, ret |-> Null, exc |-> "AllocFailed"]
    ELSE LET safe == safe_allocator(h, n) IN
         IF outcome = "construct_throws"
           THEN [heap |-> safe_allocator_dtor(safe), reserved |-> n,
                 ret |-> Null, exc |-> "ConstructFailed"]
           ELSE LET built == [safe EXCEPT !.heap = construct(@, safe.ptr)]
                    freed == safe_allocator_release(built)
                IN [heap |-> safe_allocator_dtor(freed), reserved |-> n,
                    ret |-> built.ptr, exc |-> "none"]

\* destroy_node(node): destroy the key, deallocate the memory.
destroy_node(h, n) == deallocate(destroy(h, n), n)

RECURSIVE destroy_nodes(_, _)
destroy_nodes(h, S) ==
  IF S = {} THEN h
  ELSE LET n == CHOOSE m \in S : \A k \in S : m <= k
       IN destroy_nodes(destroy_node(h, n), S \ {n})

\* destroy_all_nodes(): destroy_node on every node of the tree. The memory
\* given back is no longer the program's: its links read as NoNode.
destroy_all_nodes(impl, nd, h, t) ==
  LET S == NodesOf(impl, nd, t)
  IN [heap |-> destroy_nodes(h, S),
      node |-> [n \in Nodes |-> IF n \in S THEN NoNode ELSE nd[n]]]

\* ------------------------------------------------------------------ swap
\* template_member_swap that stores the other's value without giving its own.
template_member_swap_Assigns(impl, a, b) ==
  [impl EXCEPT ![a].rank = impl[b].rank,
               ![a].compare = impl[b].compare,
               ![a].alloc = impl[b].alloc]

\* template_member_swap<T>::do_it on the rank, the comparator and the
\* node allocator of the two trees.
template_member_swap(impl, a, b) ==
  [impl EXCEPT ![a].rank = impl[b].rank, ![b].rank = impl[a].rank,
               ![a].compare = impl[b].compare, ![b].compare = impl[a].compare,
               ![a].alloc = impl[b].alloc, ![b].alloc = impl[a].alloc]

\* swap_stitch without the write of leftmost.
swap_stitch_KeepsLeftmost(impl, a, b) ==
  IF impl[a].parent = Hdr(a)
    THEN [impl EXCEPT ![a].parent = Hdr(b), ![a].right = Hdr(b)]
  ELSE IF impl[b].parent = Hdr(b)
    THEN [impl EXCEPT ![b].parent = Hdr(a), ![b].right = Hdr(a)]
  ELSE impl

\* swap_stitch without the branch for an empty argument.
swap_stitch_ThisOnly(impl, a, b) ==
  IF impl[a].parent = Hdr(a)
    THEN [impl EXCEPT ![a].parent = Hdr(b), ![a].right = Hdr(b),
                      ![a].leftmost = Hdr(b)]
  ELSE impl

\* Lines 480-491: the empty side is first pointed at the other header.
swap_stitch(impl, a, b) ==
  IF impl[a].parent = Hdr(a)
    THEN [impl EXCEPT ![a].parent = Hdr(b), ![a].right = Hdr(b),
                      ![a].leftmost = Hdr(b)]
  ELSE IF impl[b].parent = Hdr(b)
    THEN [impl EXCEPT ![b].parent = Hdr(a), ![b].right = Hdr(a),
                      ![b].leftmost = Hdr(a)]
  ELSE impl

\* swap_header without the exchange of right.
swap_header_KeepsRight(impl, a, b) ==
  [impl EXCEPT ![a].parent = impl[b].parent, ![b].parent = impl[a].parent,
               ![a].leftmost = impl[b].leftmost,
               ![b].leftmost = impl[a].leftmost]

\* swap_header that exchanges the left links too.
swap_header_SwapsLeft(impl, a, b) ==
  [impl EXCEPT ![a].parent = impl[b].parent, ![b].parent = impl[a].parent,
               ![a].left = impl[b].left, ![b].left = impl[a].left,
               ![a].right = impl[b].right, ![b].right = impl[a].right,
               ![a].leftmost = impl[b].leftmost,
               ![b].leftmost = impl[a].leftmost]

\* Lines 492-494: std::swap of parent, right and leftmost.
swap_header(impl, a, b) ==
  [impl EXCEPT ![a].parent = impl[b].parent, ![b].parent = impl[a].parent,
               ![a].right = impl[b].right, ![b].right = impl[a].right,
               ![a].leftmost = impl[b].leftmost,
               ![b].leftmost = impl[a].leftmost]

\* swap_relink that writes nothing.
swap_relink_Skipped(s, t) == s

\* Lines 495-498: each root's parent link is pointed at its new header.
swap_relink(s, t) ==
  IF s.impl[t].parent # Hdr(t)
    THEN StoreParent(s, s.impl[t].parent, Hdr(t))
    ELSE s

\* a.swap(b) on the state s = [impl, node].
swap(s, a, b) ==
  IF empty(s.impl, a) /\ empty(s.impl, b) THEN s
  ELSE LET s1 == [s EXCEPT !.impl = template_member_swap(@, a, b)]
           s2 == [s1 EXCEPT !.impl = swap_stitch(@, a, b)]
           s3 == [s2 EXCEPT !.impl = swap_header(@, a, b)]
       IN swap_relink(swap_relink(s3, a), b)

\* clear() without the call of initialize().
clear_NoInitialize(impl, nd, h, t) ==
  LET d == destroy_all_nodes(impl, nd, h, t)
  IN [impl |-> impl, node |-> d.node, heap |-> d.heap]

\* clear(): destroy_all_nodes(), then m_impl.initialize().
clear(impl, nd, h, t) ==
  LET d == destroy_all_nodes(impl, nd, h, t)
  IN [impl |-> initialize(impl, t), node |-> d.node, heap |-> d.heap]

\* ~Kdtree_base(): destroy_all_nodes().
Kdtree_base_dtor(impl, nd, h, t) ==
  LET d == destroy_all_nodes(impl, nd, h, t)
  IN [impl |-> impl, node |-> d.node, heap |-> d.heap]

\* ---------------------------------------------------------------- insert
\* The places a new leaf can be attached in tree t: the root slot of an
\* empty tree, or a missing child of one of its nodes. Which one an
\* insertion takes is decided by the comparisons of its key on the way
\* down; every place is taken by some key.
Slots(impl, nd, t) ==
  IF empty(impl, t) THEN { [at |-> Hdr(t), side |-> "root"] }
  ELSE { [at |-> n, side |-> "left"] :
           n \in { m \in NodesOf(impl, nd, t) : nd[m].left = Null } }
       \cup
       { [at |-> n, side |-> "right"] :
           n \in { m \in NodesOf(impl, nd, t) : nd[m].right = Null } }

\* Link a created node n at a slot of tree t and keep the header's
\* leftmost and rightmost the in-order minimum and maximum.
link_node(s, t, n, slot) ==
  LET fresh == [parent |-> slot.at, left |-> Null, right |-> Null] IN
  CASE slot.side = "root" ->
         [impl |-> [s.impl EXCEPT ![t].parent = n, ![t].leftmost = n,
                                  ![t].right = n],
          node |-> [s.node EXCEPT ![n] = fresh]]
    [] slot.side = "left" ->
         [impl |-> IF s.impl[t].leftmost = slot.at
                     THEN [s.impl EXCEPT ![t].leftmost = n] ELSE s.impl,
          node |-> [s.node EXCEPT ![n] = fresh, ![slot.at].left = n]]
    [] OTHER ->
         [impl |-> IF s.impl[t].right = slot.at
                     THEN [s.impl EXCEPT ![t].right = n] ELSE s.impl,
          node |-> [s.node EXCEPT ![n] = fresh, ![slot.at].right = n]]

\* No keyed tree and no iterator: the state of kd and it in the
\* specifications of the tree base and of the facades.
NoTree == [flavor |-> "none"]
NoIter == [kind |-> "none"]

\* ---------------------------------------------------------------- history
Owned(impl, nd) == [t \in Trees |-> NodesOf(impl, nd, t)]
Allocated(h) == { n \in Nodes : h[n].allocated > 0 }
NoPre == [impl |-> <<>>, owned |-> <<>>, allocated |-> {}]
Pre == [impl |-> m_impl, owned |-> Owned(m_impl, node),
        allocated |-> Allocated(heap)]
NoOp == [op |-> "none", a |-> 0, b |-> 0, reserved |-> Null, ret |-> Null,
         exc |-> "none", pre |-> NoPre]

Outcomes == {"ok", "bad_alloc", "construct_throws"}

Init ==
  /\ \E c \in [Trees -> Collaborators] :
       m_impl = [t \in Trees |->
                   Kdtree_base([u \in Trees |-> NoImpl], t,
                               c[t].rank, c[t].compare, c[t].alloc)[t]]
  /\ life = [t \in Trees |-> "alive"]
  /\ node = [n \in Nodes |-> NoNode]
  /\ heap = [n \in Nodes |-> NoMem]
  /\ last = NoOp
  /\ made = NotMade
  /\ kd = NoTree
  /\ it = NoIter

\* The slot an insertion would take matters only when create_node returns
\* a node: an insertion whose create_node throws is tried with one key.
InsertSlots(t, outcome) ==
  LET S == Slots(m_impl, node, t)
  IN IF outcome = "ok" \/ S = {} THEN S ELSE { CHOOSE slot \in S : TRUE }

\* insert(x) on tree t: create_node, then link the node at its slot.
Insert(t, outcome, slot) ==
  /\ life[t] = "alive"
  /\ slot \in InsertSlots(t, outcome)
  /\ \E n \in (IF outcome = "bad_alloc" THEN {Null} ELSE Fresh(heap)) :
       LET c == create_node(heap, n, outcome)
           s == IF c.ret # Null
                  THEN link_node([impl |-> m_impl, node |-> node], t, c.ret,
                                 slot)
                  ELSE [impl |-> m_impl, node |-> node]
       IN /\ m_impl' = s.impl
          /\ node' = s.node
          /\ heap' = c.heap
          /\ last' = [NoOp EXCEPT !.op = "insert", !.a = t, !.b = t,
                                  !.reserved = c.reserved, !.ret = c.ret,
                                  !.exc = c.exc, !.pre = Pre]
  /\ UNCHANGED <<life, made, kd, it>>

\* a.swap(b); a and b may be the same tree.
Swap(a, b) ==
  /\ life[a] = "alive" /\ life[b] = "alive"
  /\ LET s == swap([impl |-> m_impl, node |-> node], a, b)
     IN /\ m_impl' = s.impl
        /\ node' = s.node
  /\ last' = [NoOp EXCEPT !.op = "swap", !.a = a, !.b = b, !.pre = Pre]
  /\ UNCHANGED <<life, heap, made, kd, it>>

Clear(t) ==
  /\ life[t] = "alive"
  /\ LET c == clear(m_impl, node, heap, t)
     IN /\ m_impl' = c.impl
        /\ node' = c.node
        /\ heap' = c.heap
  /\ last' = [NoOp EXCEPT !.op = "clear", !.a = t, !.b = t]
  /\ UNCHANGED <<life, made, kd, it>>

\* The tree object goes out of scope: the destructor runs and the object,
\* its header included, is gone.
Destroy(t) ==
  /\ life[t] = "alive"
  /\ LET d == Kdtree_base_dtor(m_impl, node, heap, t)
     IN /\ m_impl' = [d.impl EXCEPT ![t] = NoImpl]
        /\ node' = d.node
        /\ heap' = d.heap
  /\ life' = [life EXCEPT ![t] = "destroyed"]
  /\ last' = [NoOp EXCEPT !.op = "destroy", !.a = t, !.b = t]
  /\ UNCHANGED <<made, kd, it>>

Next ==
  \/ \E t \in Trees, o \in Outcomes :
       \E slot \in InsertSlots(t, o) : Insert(t, o, slot)
  \/ \E a, b \in Trees : Swap(a, b)
  \/ \E t \in Trees : Clear(t)
  \/ \E t \in Trees : Destroy(t)

Spec == Init /\ [][Next]_vars

\* --------------------------------------------------------------- facades
\* What a default-constructed collaborator is.
DefaultRank == 1
DefaultCompare == "lessDefault"
DefaultAlloc == "allocDefault"

\* except::check_rank_argument(dim)
check_rank_argument(dim) == IF dim = 0 THEN "InvalidRank" ELSE "none"

\* The constructors of Relaxed_kdtree and Kdtree hand the rank, the
\* comparator and the allocator on to Kdtree_base.
base_type(impl, t, rank, compare, alloc) ==
  Kdtree_base(impl, t, rank, compare, alloc)

\* A facade constructor is what it hands to its base and whether its body
\* calls check_rank_argument(dim). x holds the template rank R and the
\* arguments dim, compare and alloc.
Forward(rank, compare, alloc, check) ==
  [rank |-> rank, compare |-> compare, alloc |-> alloc, check |-> check]

\* pointmap<Rank, ...>
pointmap_ctor(sig, x) ==
  CASE sig = "default" ->
         Forward(x.R, DefaultCompare, DefaultAlloc, FALSE)
    [] sig = "compare" ->
         Forward(x.R, DefaultCompare, DefaultAlloc, FALSE)
    [] sig = "compare_policy" ->
         Forward(x.R, x.compare, DefaultAlloc, FALSE)
    [] OTHER ->
         Forward(x.R, x.compare, x.alloc, FALSE)

\* pointmap0_ctor whose (dim, compare) constructor has an empty body.
pointmap0_ctor_NoCheck(sig, x) ==
  CASE sig = "default" ->
         Forward(DefaultRank, DefaultCompare, DefaultAlloc, FALSE)
    [] sig = "dim" ->
         Forward(x.dim, DefaultCompare, DefaultAlloc, TRUE)
    [] sig = "dim_compare" ->
         Forward(x.dim, x.compare, DefaultAlloc, FALSE)
    [] sig = "dim_compare_policy" ->
         Forward(x.dim, x.compare, DefaultAlloc, TRUE)
    [] sig = "dim_compare_policy_alloc" ->
         Forward(x.dim, x.compare, x.alloc, TRUE)
    [] sig = "compare" ->
         Forward(DefaultRank, x.compare, DefaultAlloc, FALSE)
    [] sig = "compare_policy" ->
         Forward(DefaultRank, x.compare, DefaultAlloc, FALSE)
    [] OTHER ->
         Forward(DefaultRank, x.compare, x.alloc, FALSE)

\* pointmap<0, ...>
pointmap0_ctor(sig, x) ==
  CASE sig = "default" ->
         Forward(DefaultRank, DefaultCompare, DefaultAlloc, FALSE)
    [] sig = "dim" ->
         Forward(x.dim, DefaultCompare, DefaultAlloc, TRUE)
    [] sig = "dim_compare" ->
         Forward(x.dim, x.compare, DefaultAlloc, TRUE)
    [] sig = "dim_compare_policy" ->
         Forward(x.dim, x.compare, DefaultAlloc, TRUE)
    [] sig = "dim_compare_policy_alloc" ->
         Forward(x.dim, x.compare, x.alloc, TRUE)
    [] sig = "compare" ->
         Forward(DefaultRank, x.compare, DefaultAlloc, FALSE)
    [] sig = "compare_policy" ->
         Forward(DefaultRank, x.compare, DefaultAlloc, FALSE)
    [] OTHER ->
         Forward(DefaultRank, x.compare, x.alloc, FALSE)

\* runtime_pointmap
runtime_pointmap_ctor(sig, x) ==
  CASE sig = "default" ->
         Forward(DefaultRank, DefaultCompare, DefaultAlloc, FALSE)
    [] sig = "dim" ->
         Forward(x.dim, DefaultCompare, DefaultAlloc, TRUE)
    [] sig = "dim_compare" ->
         Forward(x.dim, x.compare, DefaultAlloc, TRUE)
    [] sig = "dim_compare_policy" ->
         Forward(x.dim, x.compare, DefaultAlloc, TRUE)
    [] sig = "dim_compare_policy_alloc" ->
         Forward(x.dim, x.compare, x.alloc, TRUE)
    [] sig = "compare" ->
         Forward(DefaultRank, x.compare, DefaultAlloc, FALSE)
    [] sig = "compare_policy" ->
         Forward(DefaultRank, x.compare, DefaultAlloc, FALSE)
    [] OTHER ->
         Forward(DefaultRank, x.compare, x.alloc, FALSE)

\* frozen_pointset<Rank, ...>
frozen_pointset_ctor(sig, x) ==
  CASE sig = "default" ->
         Forward(x.R, DefaultCompare, DefaultAlloc, FALSE)
    [] sig = "compare" ->
         Forward(x.R, DefaultCompare, DefaultAlloc, FALSE)
    [] OTHER ->
         Forward(x.R, x.compare, x.alloc, FALSE)

\* frozen_pointset<0, ...>
frozen_pointset0_ctor(sig, x) ==
  CASE sig = "default" ->
         Forward(DefaultRank, DefaultCompare, DefaultAlloc, FALSE)
    [] sig = "dim" ->
         Forward(x.dim, DefaultCompare, DefaultAlloc, FALSE)
    [] sig = "dim_compare" ->
         Forward(x.dim, x.compare, DefaultAlloc, FALSE)
    [] sig = "compare" ->
         Forward(DefaultRank, x.compare, DefaultAlloc, FALSE)
    [] sig = "dim_compare_alloc" ->
         Forward(x.dim, x.compare, x.alloc, FALSE)
    [] OTHER ->
         Forward(DefaultRank, x.compare, x.alloc, FALSE)

\* frozen_runtime_pointset
frozen_runtime_pointset_ctor(sig, x) ==
  CASE sig = "default" ->
         Forward(DefaultRank, DefaultCompare, DefaultAlloc, FALSE)
    [] sig = "dim" ->
         Forward(x.dim, DefaultCompare, DefaultAlloc, FALSE)
    [] sig = "dim_compare" ->
         Forward(x.dim, x.compare, DefaultAlloc, FALSE)
    [] sig = "compare" ->
         Forward(DefaultRank, x.compare, DefaultAlloc, FALSE)
    [] sig = "dim_compare_alloc" ->
         Forward(x.dim, x.compare, x.alloc, FALSE)
    [] OTHER ->
         Forward(DefaultRank, x.compare, x.alloc, FALSE)

StaticFacades == {"pointmap", "frozen_pointset"}
RelaxedDynamic == {"pointmap0", "runtime_pointmap"}
FrozenDynamic == {"frozen_pointset0", "frozen_runtime_pointset"}
Facades == StaticFacades \cup RelaxedDynamic \cup FrozenDynamic

\* The constructors each facade declares, by their parameter lists.
Sigs(facade) ==
  CASE facade = "pointmap" ->
         {"default", "compare", "compare_policy", "compare_policy_alloc"}
    [] facade = "frozen_pointset" ->
         {"default", "compare", "compare_alloc"}
    [] facade \in RelaxedDynamic ->
         {"default", "dim", "dim_compare", "dim_compare_policy",
          "dim_compare_policy_alloc", "compare", "compare_policy",
          "compare_policy_alloc"}
    [] OTHER ->
         {"default", "dim", "dim_compare", "compare", "dim_compare_alloc",
          "compare_alloc"}

\* The constructors that take a run-time dimension.
DimSigs == {"dim", "dim_compare", "dim_compare_policy",
            "dim_compare_policy_alloc", "dim_compare_alloc"}

Ctor(facade, sig, x) ==
  CASE facade = "pointmap" -> pointmap_ctor(sig, x)
    [] facade = "pointmap0" -> pointmap0_ctor(sig, x)
    [] facade = "runtime_pointmap" -> runtime_pointmap_ctor(sig, x)
    [] facade = "frozen_pointset" -> frozen_pointset_ctor(sig, x)
    [] facade = "frozen_pointset0" -> frozen_pointset0_ctor(sig, x)
    [] OTHER -> frozen_runtime_pointset_ctor(sig, x)

Dims == 0..MaxDim
Compares == {"lessA", "lessB"}
Allocs == {"allocA", "allocB"}

InitFacade ==
  /\ m_impl = [t \in Trees |-> NoImpl]
  /\ life = [t \in Trees |-> "unborn"]
  /\ node = [n \in Nodes |-> NoNode]
  /\ heap = [n \in Nodes |-> NoMem]
  /\ last = NoOp
  /\ made = NotMade
  /\ kd = NoTree
  /\ it = NoIter

\* Construct a container of a facade in place t: the base is constructed
\* from what the constructor forwards, then the constructor's body runs;
\* when it throws, the base is destroyed again and no container exists.
FacadeConstruct(t, facade, sig, x) ==
  /\ \A u \in Trees : life[u] = "unborn"
  /\ sig \in Sigs(facade)
  /\ LET c == Ctor(facade, sig, x)
         built == base_type(m_impl, t, c.rank, c.compare, c.alloc)
         thrown == IF c.check THEN check_rank_argument(x.dim) ELSE "none"
     IN /\ IF thrown = "none"
             THEN /\ m_impl' = built
                  /\ life' = [life EXCEPT ![t] = "alive"]
                  /\ UNCHANGED <<node, heap>>
             ELSE LET d == Kdtree_base_dtor(built, node, heap, t)
                  IN /\ m_impl' = [d.impl EXCEPT ![t] = NoImpl]
                     /\ node' = d.node
                     /\ heap' = d.heap
                     /\ life' = [life EXCEPT ![t] = "destroyed"]
        /\ made' = [facade |-> facade, sig |-> sig, R |-> x.R,
                    dim |-> x.dim, compare |-> x.compare,
                    alloc |-> x.alloc, tree |-> t, thrown |-> thrown]
  /\ UNCHANGED <<last, kd, it>>

\* The template rank and the arguments a facade is constructed with.
Args(facade) ==
  [R : IF facade \in StaticFacades THEN 1..MaxDim ELSE {0},
   dim : Dims, compare : Compares, alloc : Allocs]

NextFacade ==
  \E t \in Trees, facade \in Facades :
    \E sig \in Sigs(facade), x \in Args(facade) :
      FacadeConstruct(t, facade, sig, x)

SpecFacade == InitFacade /\ [][NextFacade]_vars

\* ------------------------------------------------------------ properties
Alive == { t \in Trees : life[t] = "alive" }

\* C1: in every reachable state, for every tree, begin() == end() exactly
\* when empty() is true: the leftmost cursor is the tree's own header iff
\* the header's parent link is the header.
C1_BeginIsEndIffEmpty ==
  \A t \in Alive :
    (begin(m_impl, t) = end(m_impl, t)) <=> empty(m_impl, t)

\* An empty tree was swapped with a non-empty one: the first is now
\* non-empty with begin # end, the second empty with begin = end.
C1_Witness ==
  /\ last.op = "swap" /\ last.a # last.b
  /\ empty(last.pre.impl, last.a) /\ ~empty(last.pre.impl, last.b)
  /\ ~empty(m_impl, last.a)
  /\ begin(m_impl, last.a) # end(m_impl, last.a)
  /\ empty(m_impl, last.b)
  /\ begin(m_impl, last.b) = end(m_impl, last.b)

\* A link of tree b as tree a holds it: b's header becomes a's header.
Rebase(p, b, a) == IF p = Hdr(b) THEN Hdr(a) ELSE p

HoldsFormer(a, b) ==
  /\ m_impl[a].rank = last.pre.impl[b].rank
  /\ m_impl[a].compare = last.pre.impl[b].compare
  /\ m_impl[a].alloc = last.pre.impl[b].alloc
  /\ m_impl[a].parent = Rebase(last.pre.impl[b].parent, b, a)
  /\ m_impl[a].leftmost = Rebase(last.pre.impl[b].leftmost, b, a)
  /\ m_impl[a].right = Rebase(last.pre.impl[b].right, b, a)
  /\ NodesOf(m_impl, node, a) = last.pre.owned[b]

\* C2: after a.swap(b) on two distinct trees of which at least one is
\* non-empty, a holds b's former rank, comparator, allocator, root,
\* leftmost and rightmost and b holds a's; the node sets are exchanged
\* whole and stay disjoint.
C2_SwapExchanges ==
  (/\ last.op = "swap" /\ last.a # last.b
   /\ ~(empty(last.pre.impl, last.a) /\ empty(last.pre.impl, last.b)))
  => /\ HoldsFormer(last.a, last.b)
     /\ HoldsFormer(last.b, last.a)
     /\ NodesOf(m_impl, node, last.a) \cap NodesOf(m_impl, node, last.b) = {}

\* Two non-empty trees that differ in rank, comparator and rightmost node
\* have been swapped.
C2_Witness ==
  /\ last.op = "swap" /\ last.a # last.b
  /\ ~empty(last.pre.impl, last.a) /\ ~empty(last.pre.impl, last.b)
  /\ last.pre.impl[last.a].rank # last.pre.impl[last.b].rank
  /\ last.pre.impl[last.a].compare # last.pre.impl[last.b].compare
  /\ Cardinality(last.pre.owned[last.a]) = 2
  /\ m_impl[last.a].right = last.pre.impl[last.b].right

\* C3: in every reachable state the root of every non-empty tree has its
\* parent link at that tree's own header.
C3_RootParentIsOwnHeader ==
  \A t \in Alive :
    ~empty(m_impl, t) =>
      /\ IsNode(get_root(m_impl, t))
      /\ node[get_root(m_impl, t)].parent = get_header(t)

\* After a swap of two non-empty trees the root that was b's is a's root
\* and points at a's header.
C3_Witness ==
  /\ last.op = "swap" /\ last.a # last.b
  /\ ~empty(last.pre.impl, last.a) /\ ~empty(last.pre.impl, last.b)
  /\ get_root(m_impl, last.a) = get_root(last.pre.impl, last.b)
  /\ node[get_root(m_impl, last.a)].parent = get_header(last.a)

\* The header links of tree e all point at e's header.
SelfStitched(e) ==
  /\ m_impl[e].parent = Hdr(e)
  /\ m_impl[e].right = Hdr(e)
  /\ m_impl[e].leftmost = Hdr(e)

PointsAt(e, o) ==
  \/ m_impl[e].parent = Hdr(o)
  \/ m_impl[e].right = Hdr(o)
  \/ m_impl[e].leftmost = Hdr(o)

\* C4: after a swap with exactly one tree empty, in either call order, the
\* tree that ends up empty has parent, right and leftmost at its own
\* header and none of them at the other tree's header.
C4_EmptySideStitched ==
  (/\ last.op = "swap"
   /\ empty(last.pre.impl, last.a) # empty(last.pre.impl, last.b))
  => LET e == IF empty(last.pre.impl, last.a) THEN last.b ELSE last.a
         o == IF empty(last.pre.impl, last.a) THEN last.a ELSE last.b
     IN SelfStitched(e) /\ ~PointsAt(e, o)

\* full.swap(empty) has run: the receiver is the one now empty.
C4_Witness ==
  /\ last.op = "swap"
  /\ ~empty(last.pre.impl, last.a) /\ empty(last.pre.impl, last.b)
  /\ SelfStitched(last.a)
  /\ ~empty(m_impl, last.b)

\* C5: swap() on two empty trees exchanges the rank, the comparator and
\* the allocator of the two trees.
C5_EmptySwapExchanges ==
  (/\ last.op = "swap"
   /\ empty(last.pre.impl, last.a) /\ empty(last.pre.impl, last.b))
  => /\ m_impl[last.a].rank = last.pre.impl[last.b].rank
     /\ m_impl[last.a].compare = last.pre.impl[last.b].compare
     /\ m_impl[last.a].alloc = last.pre.impl[last.b].alloc
     /\ m_impl[last.b].rank = last.pre.impl[last.a].rank
     /\ m_impl[last.b].compare = last.pre.impl[last.a].compare
     /\ m_impl[last.b].alloc = last.pre.impl[last.a].alloc

\* The trees that hold node n.
Owners(n) == { t \in Trees : n \in NodesOf(m_impl, node, t) }

\* C6: every element node is, at any time, either alive, never destroyed
\* nor deallocated, and held by exactly one tree that is itself alive, or
\* destroyed once and deallocated once and held by no tree; no node is
\* destroyed or deallocated twice.
C6_DestroyedExactlyOnce ==
  \A n \in Nodes :
    /\ heap[n].destroyed <= 1
    /\ heap[n].deallocated <= 1
    /\ heap[n].constructed > 0 =>
         \/ /\ heap[n].st = "live"
            /\ heap[n].destroyed = 0 /\ heap[n].deallocated = 0
            /\ Cardinality(Owners(n)) = 1
            /\ Owners(n) \subseteq Alive
         \/ /\ heap[n].st = "released"
            /\ heap[n].destroyed = 1 /\ heap[n].deallocated = 1
            /\ Owners(n) = {}

\* Every tree has been destroyed and every node has been an element.
C6_Witness ==
  /\ last.op = "destroy"
  /\ Alive = {}
  /\ \A n \in Nodes : heap[n].constructed = 1 /\ heap[n].destroyed = 1

\* The memory a create_node call reserved: r is new on the heap, and is
\* either returned and not deallocated, or deallocated once and not
\* returned.
ReservedOne(r) ==
  /\ Allocated(heap) \ last.pre.allocated = {r}
  /\ heap[r].allocated = 1
  /\ \/ last.ret = r /\ heap[r].deallocated = 0
     \/ last.ret = Null /\ heap[r].deallocated = 1

\* C7 as stated: each call of create_node reserves exactly one node's
\* memory, which is either returned to the caller or deallocated once by
\* the guard, never both and never neither.
C7_EveryCallReservesOne ==
  last.op = "insert" => \E r \in Nodes : ReservedOne(r)

\* C7 as amended: each call of create_node whose allocation succeeds
\* reserves exactly one node's memory, which is returned to the caller
\* when the construction succeeded and deallocated once by the guard when
\* it failed, never both and never neither; a call whose allocation throws
\* reserves nothing, returns nothing and deallocates nothing.
C7_ReservedReturnedOrReleased ==
  last.op = "insert" =>
    IF last.exc = "AllocFailed"
      THEN /\ Allocated(heap) = last.pre.allocated
           /\ last.ret = Null
           /\ \A n \in Nodes : heap[n].st # "raw"
      ELSE /\ last.reserved \in Nodes
           /\ ReservedOne(last.reserved)
           /\ (last.ret = last.reserved) <=> (last.exc = "none")
           /\ (last.ret = last.reserved) =>
                heap[last.reserved].constructed = 1

\* The construction of the key threw: the guard has deallocated the
\* memory and no node was returned.
C7_Witness ==
  /\ last.op = "insert" /\ last.exc = "ConstructFailed"
  /\ last.ret = Null
  /\ heap[last.reserved].deallocated = 1

\* C8: when the allocation or the construction fails inside create_node,
\* the rank, the comparator and the header links of every tree are what
\* they were before the call, every tree holds the nodes it held, and
\* every node reachable from a header is fully constructed.
C8_FailureLeavesTree ==
  (last.op = "insert" /\ last.exc # "none")
  => /\ m_impl = last.pre.impl
     /\ Owned(m_impl, node) = last.pre.owned
     /\ \A t \in Trees : \A n \in NodesOf(m_impl, node, t) :
          heap[n].st = "live" /\ heap[n].constructed = 1

\* A construction failed during an insertion into a non-empty tree.
C8_Witness ==
  /\ last.op = "insert" /\ last.exc = "ConstructFailed"
  /\ ~empty(m_impl, last.a)
  /\ heap[last.reserved].st = "released"

\* C9: every constructor of pointmap<0, ...> and of runtime_pointmap that
\* takes a run-time dimension throws the invalid-rank error for dimension
\* 0, leaving no container, and for every dimension >= 1 yields a
\* container of that rank.
C9_PointmapRejectsZero ==
  (made.facade \in RelaxedDynamic /\ made.sig \in DimSigs)
  => IF made.dim = 0
       THEN made.thrown = "InvalidRank" /\ life[made.tree] # "alive"
       ELSE /\ made.thrown = "none"
            /\ life[made.tree] = "alive"
            /\ m_impl[made.tree].rank = made.dim

\* runtime_pointmap(0, compare, policy, alloc) has thrown.
C9_Witness ==
  /\ made.facade = "runtime_pointmap"
  /\ made.sig = "dim_compare_policy_alloc"
  /\ made.dim = 0
  /\ made.thrown = "InvalidRank"
  /\ life[made.tree] = "destroyed"

\* C10: every constructor of frozen_pointset<0, ...> and of
\* frozen_runtime_pointset that takes a run-time dimension throws the
\* invalid-rank error for dimension 0.
C10_FrozenRejectsZero ==
  (made.facade \in FrozenDynamic /\ made.sig \in DimSigs /\ made.dim = 0)
  => made.thrown = "InvalidRank" /\ life[made.tree] # "alive"

\* The constructors that take a comparator.
CompareSigs == {"compare", "compare_policy", "compare_policy_alloc",
                "compare_alloc", "dim_compare", "dim_compare_policy",
                "dim_compare_policy_alloc", "dim_compare_alloc"}

\* C11: every facade constructor that receives a comparator yields a
\* container whose comparator is the one supplied.
C11_CompareForwarded ==
  (made.sig \in CompareSigs /\ made.thrown = "none")
  => /\ life[made.tree] = "alive"
     /\ m_impl[made.tree].compare = made.compare

\* ------------------------------------------------------------ keyed trees
\* A k-d tree with keys, for the iterators and for insertion and erasure. It
\* holds at most MaxKeys nodes, each with a key of rank coordinates in
\* 0..MaxCoord. A node is named by its place: the root is 1, and the left and
\* right children of n are 2n and 2n + 1. The header is KHdr, which the
\* root's parent link and an iterator at the end point to.
MaxKeys == 3
MaxCoord == 1

KNodes == 1..(2^MaxKeys - 1)
Coords == 0..MaxCoord
Ranks == { c.rank : c \in Collaborators }
Keys(rank) == [1..rank -> Coords]
Flavors == {"strict", "relaxed"}
KHdr == Hdr(1)

EmptyTree(flavor, rank) ==
  [flavor |-> flavor, rank |-> rank, root |-> KHdr, size |-> 0,
   key |-> [n \in KNodes |-> <<>>], link |-> [n \in KNodes |-> NoNode]]

\* bracket_less: the default comparator, on coordinate dim (counted from 0).
comp(dim, a, b) == a[dim + 1] < b[dim + 1]

const_key(T, n) == T.key[n]

incr_dim(rank, dim) == (dim + 1) % rank
decr_dim(rank, dim) == (dim + rank - 1) % rank

\* The nodes of the subtree rooted at n (none for a null link).
RECURSIVE Subtree(_, _)
Subtree(T, n) ==
  IF ~IsNode(n) THEN {}
  ELSE {n} \cup Subtree(T, T.link[n].left) \cup Subtree(T, T.link[n].right)

KdNodes(T) == Subtree(T, T.root)

\* The depth of node n (the root has depth 0) and the axis it splits on.
RECURSIVE Depth(_, _)
Depth(T, n) == IF T.link[n].parent = KHdr THEN 0
               ELSE 1 + Depth(T, T.link[n].parent)

Axis(T, n) == Depth(T, n) % T.rank

\* The partition invariant of the flavor at node n: on n's axis no key of
\* the right subtree is less than n's, and every key of the left subtree is
\* less than n's (strict) or not greater than n's (relaxed).
PartitionedAt(T, n) ==
  LET a == Axis(T, n) IN
  /\ \A r \in Subtree(T, T.link[n].right) :
       ~comp(a, const_key(T, r), const_key(T, n))
  /\ \A l \in Subtree(T, T.link[n].left) :
       IF T.flavor = "strict"
         THEN comp(a, const_key(T, l), const_key(T, n))
         ELSE ~comp(a, const_key(T, n), const_key(T, l))

Partitioned(T) == \A n \in KdNodes(T) : PartitionedAt(T, n)

\* The places a new key may be linked at: the descent from the root goes
\* left of a node whose key is greater on its axis and right of one whose key
\* is less; at a tie it goes right in a strict tree, and either way in a
\* relaxed tree (whose rebalancing may leave equal keys on both sides).
RECURSIVE Places(_, _, _, _)
Places(T, key, n, dim) ==
  LET goLeft  == \/ comp(dim, key, const_key(T, n))
                 \/ /\ T.flavor = "relaxed"
                    /\ ~comp(dim, const_key(T, n), key)
      goRight == ~comp(dim, key, const_key(T, n))
      down(c, side) ==
        IF c = Null THEN { [at |-> n, side |-> side] }
        ELSE Places(T, key, c, incr_dim(T.rank, dim))
  IN (IF goLeft THEN down(T.link[n].left, "left") ELSE {})
     \cup (IF goRight THEN down(T.link[n].right, "right") ELSE {})

InsertPlaces(T, key) ==
  IF T.root = KHdr THEN { [at |-> KHdr, side |-> "root"] }
  ELSE Places(T, key, T.root, 0)

\* Link a new node with the key at the place.
kd_insert(T, key, place) ==
  LET n == CASE place.side = "root"  -> 1
             [] place.side = "left"  -> 2 * place.at
             [] place.side = "right" -> 2 * place.at + 1
      U == [T EXCEPT !.size = T.size + 1, !.key[n] = key,
                     !.link[n] = [parent |-> place.at, left |-> Null,
                                  right |-> Null]]
  IN CASE place.side = "root"  -> [U EXCEPT !.root = n]
       [] place.side = "left"  -> [U EXCEPT !.link[place.at].left = n]
       [] place.side = "right" -> [U EXCEPT !.link[place.at].right = n]

\* ---------------------------------------------------------- equal iterator
\* The query of an equal iterator: the tree it runs on and the model key.
right_traversal_NodeLess(T, n, dim, model) ==
  comp(dim, const_key(T, n), model)

right_traversal(T, n, dim, model) == ~comp(dim, model, const_key(T, n))

left_traversal_relaxed_ModelLess(T, n, dim, model) ==
  comp(dim, model, const_key(T, n))

left_traversal_relaxed(T, n, dim, model) == ~comp(dim, const_key(T, n), model)

left_traversal_strict_NotLess(T, n, dim, model) ==
  ~comp(dim, const_key(T, n), model)

left_traversal_strict(T, n, dim, model) == comp(dim, model, const_key(T, n))

left_traversal(T, n, dim, model) ==
  IF T.flavor = "strict" THEN left_traversal_strict(T, n, dim, model)
  ELSE left_traversal_relaxed(T, n, dim, model)

\* The loop leaves i at the first coordinate on which the node's key and
\* the model differ, or at rank when there is none.
stop_traversal_FirstCoordinate(T, n, model) ==
  ~comp(0, const_key(T, n), model) /\ ~comp(0, model, const_key(T, n))

stop_traversal(T, n, model) ==
  LET differ == { i \in 0..(T.rank - 1) :
                    \/ comp(i, const_key(T, n), model)
                    \/ comp(i, model, const_key(T, n)) }
      i == IF differ = {} THEN T.rank
           ELSE CHOOSE j \in differ : \A k \in differ : j <= k
  IN i = T.rank

\* A position of the traversal: a node (or the header) and its dimension.
Pos(n, dim) == [node |-> n, dim |-> dim]

\* One step forward in the pre-order of the pruned tree: the left child if
\* the query lets the traversal go left, else the right child if it lets it
\* go right, else the right child of the nearest ancestor reached from its
\* left side whose right child the query lets the traversal visit; the
\* header, with the last dimension, when there is none.
RECURSIVE preorder_climb(_, _, _, _)
preorder_climb(T, n, dim, model) ==
  LET p  == T.link[n].parent
      pd == decr_dim(T.rank, dim)
  IN IF p = KHdr THEN Pos(KHdr, pd)
     ELSE IF /\ T.link[p].right # n
             /\ T.link[p].right # Null
             /\ right_traversal(T, p, pd, model)
       THEN Pos(T.link[p].right, dim)
       ELSE preorder_climb(T, p, pd, model)

preorder_next(T, n, dim, model) ==
  IF T.link[n].left # Null /\ left_traversal(T, n, dim, model)
    THEN Pos(T.link[n].left, incr_dim(T.rank, dim))
  ELSE IF T.link[n].right # Null /\ right_traversal(T, n, dim, model)
    THEN Pos(T.link[n].right, incr_dim(T.rank, dim))
  ELSE preorder_climb(T, n, dim, model)

\* The last node in the pre-order of the pruned subtree of n.
RECURSIVE preorder_last(_, _, _, _)
preorder_last(T, n, dim, model) ==
  IF T.link[n].right # Null /\ right_traversal(T, n, dim, model)
    THEN preorder_last(T, T.link[n].right, incr_dim(T.rank, dim), model)
  ELSE IF T.link[n].left # Null /\ left_traversal(T, n, dim, model)
    THEN preorder_last(T, T.link[n].left, incr_dim(T.rank, dim), model)
  ELSE Pos(n, dim)

\* One step backward: from the header, the last node of the pruned tree;
\* from a right child whose parent lets the traversal go left, the last node
\* of the parent's left subtree; else the parent (the header from the root).
preorder_prev(T, n, dim, model) ==
  IF n = KHdr
    THEN IF T.root = KHdr THEN Pos(KHdr, dim)
         ELSE preorder_last(T, T.root, incr_dim(T.rank, dim), model)
  ELSE LET p  == T.link[n].parent
           pd == decr_dim(T.rank, dim)
       IN IF p = KHdr THEN Pos(KHdr, pd)
          ELSE IF /\ T.link[p].right = n
                  /\ T.link[p].left # Null
                  /\ left_traversal(T, p, pd, model)
            THEN preorder_last(T, T.link[p].left, dim, model)
            ELSE Pos(p, pd)

\* preorder_minimum: the first node at or after n, in the pre-order of the
\* pruned tree, that stops the traversal; the header when there is none.
RECURSIVE preorder_minimum(_, _, _, _)
preorder_minimum(T, n, dim, model) ==
  IF n = KHdr \/ stop_traversal(T, n, model) THEN Pos(n, dim)
  ELSE LET q == preorder_next(T, n, dim, model)
       IN preorder_minimum(T, q.node, q.dim, model)

\* preorder_increment: the first node after n that stops the traversal.
preorder_increment(T, n, dim, model) ==
  LET q == preorder_next(T, n, dim, model)
  IN preorder_minimum(T, q.node, q.dim, model)

\* preorder_decrement: the last node before n that stops the traversal; the
\* header when there is none.
RECURSIVE preorder_maximum(_, _, _, _)
preorder_maximum(T, n, dim, model) ==
  IF n = KHdr \/ stop_traversal(T, n, model) THEN Pos(n, dim)
  ELSE LET q == preorder_prev(T, n, dim, model)
       IN preorder_maximum(T, q.node, q.dim, model)

preorder_decrement(T, n, dim, model) ==
  LET q == preorder_prev(T, n, dim, model)
  IN preorder_maximum(T, q.node, q.dim, model)

\* equal_end: the iterator at the header, with the last dimension.
equal_end_DimZero(T, model) == Pos(KHdr, 0)

equal_end(T, model) == Pos(KHdr, T.rank - 1)

\* equal_begin: equal_end on an empty tree, else the first node from the
\* root, of dimension 0, that stops the traversal.
equal_begin_NoEmptyTest(T, model) ==
  preorder_minimum(T, T.root, 0, model)

equal_begin_FromLastDim(T, model) ==
  IF T.root = KHdr THEN equal_end(T, model)
  ELSE preorder_minimum(T, T.root, T.rank - 1, model)

equal_begin(T, model) ==
  IF T.root = KHdr THEN equal_end(T, model)
  ELSE preorder_minimum(T, T.root, 0, model)

\* The iterator of the specification: the model, the position, the nodes
\* yielded since equal_begin by increments alone (run = "forward"), and the
\* position and operation it came from.
EqualIter(model, pos, seen, run, from, op) ==
  [kind |-> "equal", model |-> model, node |-> pos.node, dim |-> pos.dim,
   seen |-> seen, run |-> run, from |-> from, op |-> op]

Yield(seen, pos) == IF pos.node = KHdr THEN seen ELSE Append(seen, pos.node)

InitEqual ==
  /\ m_impl = [t \in Trees |-> NoImpl]
  /\ life = [t \in Trees |-> "unborn"]
  /\ node = [n \in Nodes |-> NoNode]
  /\ heap = [n \in Nodes |-> NoMem]
  /\ last = NoOp
  /\ made = NotMade
  /\ \E flavor \in Flavors, rank \in Ranks : kd = EmptyTree(flavor, rank)
  /\ it = NoIter

base_vars == <<m_impl, life, node, heap, last, made>>

\* insert(key), before any iterator is taken.
KdInsert(key, place) ==
  /\ it = NoIter
  /\ kd.size < MaxKeys
  /\ place \in InsertPlaces(kd, key)
  /\ kd' = kd_insert(kd, key, place)
  /\ UNCHANGED <<base_vars, it>>

\* it = equal_begin(container, model)
EqualBegin(model) ==
  /\ it = NoIter
  /\ LET b == equal_begin(kd, model)
     IN it' = EqualIter(model, b, Yield(<<>>, b), "forward",
                        Pos(Null, 0), "begin")
  /\ UNCHANGED <<base_vars, kd>>

\* it = equal_end(container, model)
EqualEnd(model) ==
  /\ it = NoIter
  /\ it' = EqualIter(model, equal_end(kd, model), <<>>, "any",
                     Pos(Null, 0), "end")
  /\ UNCHANGED <<base_vars, kd>>

\* ++it, for an iterator that is not at the end.
EqualIncrement ==
  /\ it.kind = "equal"
  /\ it.node # KHdr
  /\ LET q == preorder_increment(kd, it.node, it.dim, it.model)
     IN it' = EqualIter(it.model, q,
                        IF it.run = "forward" THEN Yield(it.seen, q)
                        ELSE it.seen,
                        it.run, Pos(it.node, it.dim), "incr")
  /\ UNCHANGED <<base_vars, kd>>

\* --it, for an iterator that is not at the first match.
EqualDecrement ==
  /\ it.kind = "equal"
  /\ Pos(it.node, it.dim) # equal_begin(kd, it.model)
  /\ LET q == preorder_decrement(kd, it.node, it.dim, it.model)
     IN it' = EqualIter(it.model, q, <<>>, "any", Pos(it.node, it.dim),
                        "decr")
  /\ UNCHANGED <<base_vars, kd>>

NextEqual ==
  \/ \E key \in Keys(kd.rank) :
       \E place \in InsertPlaces(kd, key) : KdInsert(key, place)
  \/ \E model \in Keys(kd.rank) : EqualBegin(model)
  \/ \E model \in Keys(kd.rank) : EqualEnd(model)
  \/ EqualIncrement
  \/ EqualDecrement

SpecEqual == InitEqual /\ [][NextEqual]_vars


\* ------------------------------------------------ equal iterator: claims
\* The nodes whose key is equivalent to the model on every coordinate: with
\* bracket_less, those whose key is the model.
Matches(T, model) == { n \in KdNodes(T) : const_key(T, n) = model }

\* The nodes of the subtree of n in pre-order: n, its left subtree, its
\* right subtree.
RECURSIVE Preorder(_, _)
Preorder(T, n) ==
  IF ~IsNode(n) THEN <<>>
  ELSE <<n>> \o Preorder(T, T.link[n].left) \o Preorder(T, T.link[n].right)

IsMatch(n) == const_key(kd, n) = it.model

MatchesInOrder == SelectSeq(Preorder(kd, kd.root), IsMatch)

SeqRange(q) == { q[i] : i \in 1..Len(q) }

\* C12: iterating from equal_begin to equal_end visits exactly the nodes
\* whose key is equivalent to the model on every coordinate, each once, in
\* strict and in relaxed trees.
C12_VisitsExactlyMatches ==
  (it.kind = "equal" /\ it.run = "forward" /\ it.node = KHdr)
  => /\ SeqRange(it.seen) = Matches(kd, it.model)
     /\ Len(it.seen) = Cardinality(Matches(kd, it.model))

C12_Witness ==
  /\ it.kind = "equal" /\ it.run = "forward" /\ it.node = KHdr
  /\ Len(it.seen) = 2
  /\ kd.size = 3

\* C13: the equal iterator yields the matching nodes in pre-order (a node
\* before its left subtree, its left subtree before its right subtree), and
\* equal_begin is the first match in that order.
C13_YieldsInPreorder ==
  (it.kind = "equal" /\ it.run = "forward")
  => /\ Len(it.seen) <= Len(MatchesInOrder)
     /\ it.seen = SubSeq(MatchesInOrder, 1, Len(it.seen))
     /\ it.op = "begin"
          => it.node = IF MatchesInOrder = <<>> THEN KHdr
                       ELSE MatchesInOrder[1]

C13_Witness ==
  /\ it.kind = "equal" /\ it.run = "forward" /\ it.op = "incr"
  /\ Len(it.seen) = 2
  /\ it.seen[1] # kd.root
  /\ kd.link[it.seen[2]].parent # it.seen[1]


\* Coordinate a (counted from 0) of the key of node n, and of the model.
KeyAt(n, a) == const_key(kd, n)[a + 1]
ModelAt(a) == it.model[a + 1]

\* C14 as stated: descending into the left child of a node split on axis a
\* is allowed, in the strict variant, iff the node's key is not strictly
\* less than the model on a and, in the relaxed variant, iff the node's key
\* is strictly greater than the model on a.
C14_LeftAsStated ==
  it.kind = "equal"
  => \A n \in KdNodes(kd) :
       LET a == Axis(kd, n) IN
       left_traversal(kd, n, a, it.model)
         <=> IF kd.flavor = "strict" THEN ~(KeyAt(n, a) < ModelAt(a))
             ELSE KeyAt(n, a) > ModelAt(a)

\* C14: descending into the left child of a node split on axis a is
\* allowed, in the strict variant, iff the node's key is strictly greater
\* than the model on a and, in the relaxed variant, iff the node's key is not
\* strictly less than the model on a.
C14_LeftTraversal ==
  it.kind = "equal"
  => \A n \in KdNodes(kd) :
       LET a == Axis(kd, n) IN
       left_traversal(kd, n, a, it.model)
         <=> IF kd.flavor = "strict" THEN KeyAt(n, a) > ModelAt(a)
             ELSE ~(KeyAt(n, a) < ModelAt(a))

C14_Witness ==
  /\ it.kind = "equal" /\ it.op = "begin"
  /\ kd.flavor = "strict"
  /\ IsNode(kd.root)
  /\ kd.link[kd.root].left # Null
  /\ KeyAt(kd.root, 0) = ModelAt(0)
  /\ it.node # kd.root

\* C15: descending into the right child of a node split on axis a is
\* allowed iff the model is not strictly less than the node's key on a, in
\* both variants.
C15_RightTraversal ==
  it.kind = "equal"
  => \A n \in KdNodes(kd) :
       LET a == Axis(kd, n) IN
       right_traversal(kd, n, a, it.model) <=> ~(ModelAt(a) < KeyAt(n, a))

C15_Witness ==
  /\ it.kind = "equal" /\ it.op = "begin"
  /\ IsNode(kd.root)
  /\ kd.link[kd.root].right # Null
  /\ KeyAt(kd.root, 0) = ModelAt(0)
  /\ it.node = kd.link[kd.root].right

\* C16: the round trip of an equal iterator. Incrementing then decrementing
\* an iterator that is not at the end, and decrementing then incrementing
\* one that is not at the first match, give the iterator back; decrementing
\* from the end yields the last matching node.
C16_RoundTrip ==
  it.kind = "equal"
  => LET here == Pos(it.node, it.dim)
         fwd  == preorder_increment(kd, it.node, it.dim, it.model)
         bwd  == preorder_decrement(kd, it.node, it.dim, it.model)
     IN /\ it.node # KHdr
             => preorder_decrement(kd, fwd.node, fwd.dim, it.model) = here
        /\ here # equal_begin(kd, it.model)
             => /\ bwd.node # KHdr
                /\ preorder_increment(kd, bwd.node, bwd.dim, it.model) = here
        /\ (it.op = "decr" /\ it.from = equal_end(kd, it.model))
             => /\ MatchesInOrder # <<>>
                /\ it.node = MatchesInOrder[Len(MatchesInOrder)]

C16_Witness ==
  /\ it.kind = "equal" /\ it.op = "decr"
  /\ it.from.node = KHdr
  /\ Len(MatchesInOrder) = 2
  /\ it.node = MatchesInOrder[2]
  /\ kd.size = 3


\* C20: the pruning of the equal iterator never discards a match. In a tree
\* that satisfies the partition invariant of its flavor, a left subtree the
\* iterator is not allowed to enter, and a right subtree it is not allowed to
\* enter, hold no node equivalent to the model.
C20_PruningKeepsMatches ==
  it.kind = "equal"
  => /\ Partitioned(kd)
     /\ \A n \in KdNodes(kd) :
          LET a == Axis(kd, n) IN
          /\ ~left_traversal(kd, n, a, it.model)
               => Subtree(kd, kd.link[n].left) \cap Matches(kd, it.model) = {}
          /\ ~right_traversal(kd, n, a, it.model)
               => Subtree(kd, kd.link[n].right) \cap Matches(kd, it.model) = {}

\* A relaxed tree with a match in the left subtree of a node that ties with
\* the model on its axis, beside a right subtree the iterator may not enter.
C20_Witness ==
  /\ it.kind = "equal"
  /\ kd.flavor = "relaxed"
  /\ \E n \in KdNodes(kd) :
       /\ KeyAt(n, Axis(kd, n)) = ModelAt(Axis(kd, n))
       /\ Subtree(kd, kd.link[n].left) \cap Matches(kd, it.model) # {}
  /\ \E n \in KdNodes(kd) :
       /\ kd.link[n].right # Null \/ kd.link[n].left # Null
       /\ ~right_traversal(kd, n, Axis(kd, n), it.model)


\* ------------------------------------------------- strict tree: erasure
\* The nodes the search for the minimum, or the maximum, along axis t visits
\* in the subtree of m: for the minimum the left subtree always and the right
\* subtree only when m does not split on t; the mirror for the maximum.
RECURSIVE Searched(_, _, _, _)
Searched(T, m, t, seek) ==
  IF ~IsNode(m) THEN {}
  ELSE LET l == T.link[m].left
           r == T.link[m].right
           both == Axis(T, m) # t
       IN {m}
          \cup (IF seek = "minimum" \/ both THEN Searched(T, l, t, seek)
                ELSE {})
          \cup (IF seek = "maximum" \/ both THEN Searched(T, r, t, seek)
                ELSE {})

\* The nodes the search may return: any visited node that no visited node
\* beats on axis t.
axis_minimum(T, m, t) ==
  LET S == Searched(T, m, t, "minimum")
  IN { c \in S : \A o \in S : ~comp(t, const_key(T, o), const_key(T, c)) }

axis_maximum(T, m, t) ==
  LET S == Searched(T, m, t, "maximum")
  IN { c \in S : \A o \in S : ~comp(t, const_key(T, c), const_key(T, o)) }

\* Detach the leaf n.
detach(T, n) ==
  LET p == T.link[n].parent
      U == [T EXCEPT !.size = T.size - 1, !.key[n] = <<>>,
                     !.link[n] = NoNode]
  IN IF p = KHdr THEN [U EXCEPT !.root = KHdr]
     ELSE IF T.link[p].left = n THEN [U EXCEPT !.link[p].left = Null]
     ELSE [U EXCEPT !.link[p].right = Null]

\* erase(n): a leaf is detached; else the axis-minimum of the right subtree
\* along n's axis, or without a right subtree the axis-maximum of the left
\* subtree, is moved into n's place and then erased from the place it left.
RECURSIVE erase_node(_, _)
erase_node(T, n) ==
  IF T.link[n].left = Null /\ T.link[n].right = Null THEN { detach(T, n) }
  ELSE LET a == Axis(T, n)
           C == IF T.link[n].right # Null
                  THEN axis_minimum(T, T.link[n].right, a)
                  ELSE axis_maximum(T, T.link[n].left, a)
       IN UNION { erase_node([T EXCEPT !.key[n] = const_key(T, c)], c) :
                    c \in C }

InitKdtree ==
  /\ m_impl = [t \in Trees |-> NoImpl]
  /\ life = [t \in Trees |-> "unborn"]
  /\ node = [n \in Nodes |-> NoNode]
  /\ heap = [n \in Nodes |-> NoMem]
  /\ last = NoOp
  /\ made = NotMade
  /\ \E rank \in Ranks : kd = EmptyTree("strict", rank)
  /\ it = NoIter

\* erase(position)
KdErase(n, U) ==
  /\ n \in KdNodes(kd)
  /\ U \in erase_node(kd, n)
  /\ kd' = U
  /\ UNCHANGED <<base_vars, it>>

NextKdtree ==
  \/ \E key \in Keys(kd.rank) :
       \E place \in InsertPlaces(kd, key) : KdInsert(key, place)
  \/ \E n \in KdNodes(kd) : \E U \in erase_node(kd, n) : KdErase(n, U)

SpecKdtree == InitKdtree /\ [][NextKdtree]_vars

\* C17: after any sequence of insert and erase on a strict k-d tree, every
\* node n splitting on axis a has every key of its left subtree strictly
\* less than n's key on a and no key of its right subtree less than n's key
\* on a; this includes the erasure of a node without a right subtree, which
\* the axis-maximum of its left subtree replaces.
C17_PartitionKept == Partitioned(kd)


\* ---------------------------------------------------------- range iterator
\* The key is inside the box: not below the lower bound and not above the
\* upper bound on any coordinate.
range_inside(T, n, lo, hi) ==
  \A a \in 0..(T.rank - 1) :
    ~comp(a, const_key(T, n), lo) /\ ~comp(a, hi, const_key(T, n))

\* Left pruning: descend left when the node's key is >= lower on the split
\* axis. Right pruning: descend right when the node's key is < upper on it.
range_left(T, n, dim, lo) == ~comp(dim, const_key(T, n), lo)

range_right(T, n, dim, hi) == comp(dim, const_key(T, n), hi)

\* The nodes the range iterator yields from the subtree of n, in in-order.
RECURSIVE range_walk(_, _, _, _, _)
range_walk(T, n, dim, lo, hi) ==
  IF ~IsNode(n) THEN <<>>
  ELSE LET next == incr_dim(T.rank, dim) IN
       (IF range_left(T, n, dim, lo)
          THEN range_walk(T, T.link[n].left, next, lo, hi) ELSE <<>>)
       \o (IF range_inside(T, n, lo, hi) THEN <<n>> ELSE <<>>)
       \o (IF range_right(T, n, dim, hi)
             THEN range_walk(T, T.link[n].right, next, lo, hi) ELSE <<>>)

\* The boxes: lower and upper bounds with lower <= upper on every axis.
Boxes(rank) ==
  { b \in Keys(rank) \X Keys(rank) : \A a \in 1..rank : b[1][a] <= b[2][a] }

\* Iterate the range (lo, hi) from its begin to its end.
RangeIterate(lo, hi) ==
  /\ it = NoIter
  /\ it' = [kind |-> "range", lo |-> lo, hi |-> hi,
            seen |-> range_walk(kd, kd.root, 0, lo, hi)]
  /\ UNCHANGED <<base_vars, kd>>

NextRange ==
  \/ \E key \in Keys(kd.rank) :
       \E place \in InsertPlaces(kd, key) : KdInsert(key, place)
  \/ \E b \in Boxes(kd.rank) : RangeIterate(b[1], b[2])

SpecRange == InitEqual /\ [][NextRange]_vars

\* The nodes of the tree whose key lies in the box, bounds included.
InBox(T, lo, hi) ==
  { n \in KdNodes(T) :
      \A a \in 1..T.rank : lo[a] <= T.key[n][a] /\ T.key[n][a] <= hi[a] }

\* C18: the multiset a range iterator over (lo, hi) yields is the multiset
\* of the elements e of the tree with lo <= e <= hi on every axis, the
\* elements equal to the upper bound on the split axis that sit in the right
\* subtree of a node with the same coordinate included.
C18_RangeComplete ==
  it.kind = "range"
  => /\ SeqRange(it.seen) = InBox(kd, it.lo, it.hi)
     /\ Len(it.seen) = Cardinality(InBox(kd, it.lo, it.hi))


\* ------------------------------------------------------- neighbor iterator
\* Scenario E1: the six keys inserted in a container of rank 2, and the
\* target of the neighbor query of scenario E5.
E1 == << <<2, 3>>, <<5, 4>>, <<9, 6>>, <<4, 7>>, <<8, 1>>, <<7, 2>> >>
E5Target == <<6, 3>>

\* The container of E1: its nodes may lie at any distinct addresses, which
\* decide the order of two neighbors at the same distance.
Addresses == 1..Len(E1)

E1Containers ==
  { [flavor |-> "relaxed", rank |-> 2, size |-> Len(E1), key |-> k] :
      k \in { f \in [Addresses -> { E1[i] : i \in Addresses }] :
                \A a, b \in Addresses : a # b => f[a] # f[b] } }

\* The Euclidean metric, squared: the square root is increasing, so the
\* squares order the elements as the distances do.
distance_to_key(rank, q, k) ==
  LET d(a) == IF q[a] < k[a] THEN k[a] - q[a] ELSE q[a] - k[a]
      RECURSIVE sum(_)
      sum(a) == IF a = 0 THEN 0 ELSE d(a) * d(a) + sum(a - 1)
  IN sum(rank)

\* Node a comes before node b in the enumeration: it is nearer to the
\* target, or as near and at a lower address.
neighbor_before(T, q, a, b) ==
  LET da == distance_to_key(T.rank, q, T.key[a])
      db == distance_to_key(T.rank, q, T.key[b])
  IN da < db \/ (da = db /\ a < b)

\* The first neighbor: the nearest element (the header of an empty tree).
neighbor_minimum(T, q) ==
  IF T.size = 0 THEN KHdr
  ELSE CHOOSE n \in 1..T.size :
         \A o \in 1..T.size : o # n => neighbor_before(T, q, n, o)

\* Advance past node n, which only looks at strictly farther elements.
neighbor_increment_Farther(T, q, n) ==
  LET later == { o \in 1..T.size :
                   distance_to_key(T.rank, q, T.key[n])
                     < distance_to_key(T.rank, q, T.key[o]) }
  IN IF later = {} THEN KHdr
     ELSE CHOOSE o \in later :
            \A p \in later : p # o => neighbor_before(T, q, o, p)

\* Advance past node n: the first of the elements farther than n or as far
\* and later in address order; the header when there is none.
neighbor_increment(T, q, n) ==
  LET later == { o \in 1..T.size : neighbor_before(T, q, n, o) }
  IN IF later = {} THEN KHdr
     ELSE CHOOSE o \in later :
            \A p \in later : p # o => neighbor_before(T, q, o, p)

InitNeighbor ==
  /\ m_impl = [t \in Trees |-> NoImpl]
  /\ life = [t \in Trees |-> "unborn"]
  /\ node = [n \in Nodes |-> NoNode]
  /\ heap = [n \in Nodes |-> NoMem]
  /\ last = NoOp
  /\ made = NotMade
  /\ kd \in E1Containers
  /\ it = NoIter

\* it = neighbor_begin(container, metric, target)
NeighborBegin(q) ==
  /\ it = NoIter
  /\ LET n == neighbor_minimum(kd, q)
     IN it' = [kind |-> "neighbor", target |-> q, node |-> n,
               seen |-> Yield(<<>>, Pos(n, 0))]
  /\ UNCHANGED <<base_vars, kd>>

\* ++it, for a neighbor iterator that is not at the end.
NeighborIncrement ==
  /\ it.kind = "neighbor"
  /\ it.node # KHdr
  /\ LET n == neighbor_increment(kd, it.target, it.node)
     IN it' = [it EXCEPT !.node = n, !.seen = Yield(it.seen, Pos(n, 0))]
  /\ UNCHANGED <<base_vars, kd>>

NextNeighbor ==
  \/ NeighborBegin(E5Target)
  \/ NeighborIncrement

SpecNeighbor == InitNeighbor /\ [][NextNeighbor]_vars

\* The keys of the nodes yielded so far, in the order yielded.
YieldedKeys == [i \in 1..Len(it.seen) |-> kd.key[it.seen[i]]]

\* C19 as stated: from (6,3) the neighbor iterator yields (7,2), (5,4),
\* (8,1), (4,7), (2,3), (9,6), then the end.
C19_OrderAsStated ==
  (it.kind = "neighbor" /\ it.node = KHdr)
  => YieldedKeys = << <<7, 2>>, <<5, 4>>, <<8, 1>>, <<4, 7>>, <<2, 3>>,
                      <<9, 6>> >>

\* C19: from (6,3) the neighbor iterator yields (7,2) and (5,4), which are
\* equally near, in the order of their addresses, then (8,1), (2,3), (9,6),
\* (4,7), then the end.
C19_NeighborOrder ==
  (it.kind = "neighbor" /\ it.node = KHdr)
  => /\ { YieldedKeys[1], YieldedKeys[2] } = { <<7, 2>>, <<5, 4>> }
     /\ it.seen[1] < it.seen[2]
     /\ SubSeq(YieldedKeys, 3, 6)
          = << <<8, 1>>, <<2, 3>>, <<9, 6>>, <<4, 7>> >>
     /\ Len(it.seen) = 6

C19_Witness ==
  /\ it.kind = "neighbor" /\ it.node = KHdr
  /\ Len(it.seen) = 6
  /\ YieldedKeys[1] = <<5, 4>>


\* ------------------------------------------------- construction and copy
\* Kdtree_base(other): a new tree with the rank, the comparator and the
\* allocator of the other, and no nodes.
Kdtree_base_copy(impl, t, other) ==
  Implementation(impl, t, impl[other].rank, impl[other].compare,
                 impl[other].alloc)

\* Kdtree_base(rank, compare, alloc) in a place where no tree is yet.
Construct(t, c) ==
  /\ life[t] = "unborn"
  /\ m_impl' = Kdtree_base(m_impl, t, c.rank, c.compare, c.alloc)
  /\ life' = [life EXCEPT ![t] = "alive"]
  /\ last' = [NoOp EXCEPT !.op = "construct", !.a = t, !.b = t]
  /\ UNCHANGED <<node, heap, made, kd, it>>

\* Kdtree_base(other) in a place where no tree is yet.
CopyConstruct(t, other) ==
  /\ life[t] = "unborn"
  /\ life[other] = "alive"
  /\ m_impl' = Kdtree_base_copy(m_impl, t, other)
  /\ life' = [life EXCEPT ![t] = "alive"]
  /\ last' = [NoOp EXCEPT !.op = "copy", !.a = t, !.b = other]
  /\ UNCHANGED <<node, heap, made, kd, it>>

\* The trees from their construction on: every place starts without a tree.
NextLife ==
  \/ \E t \in Trees, c \in Collaborators : Construct(t, c)
  \/ \E t, other \in Trees : CopyConstruct(t, other)
  \/ \E t \in Trees : \E slot \in InsertSlots(t, "ok") : Insert(t, "ok", slot)
  \/ \E a, b \in Trees : Swap(a, b)
  \/ \E t \in Trees : Clear(t)

SpecLife == InitFacade /\ [][NextLife]_vars

\* C21: in every state reached by construction, copy construction, clear()
\* and swap(), the left link of the header of every tree points at that
\* tree's own header; the leftmost node is kept in the leftmost field alone,
\* and no operation of the tree base writes the left link after
\* initialization.
C21_HeaderLeftIsOwnHeader ==
  \A t \in Alive :
    /\ m_impl[t].left = Hdr(t)
    /\ ~empty(m_impl, t)
         => get_leftmost(m_impl, t) \in NodesOf(m_impl, node, t)

\* A swap has handed nodes to a tree that was empty: its leftmost field is
\* a node of its own while its left link is still its header.
C21_Witness ==
  /\ last.op = "swap" /\ last.a # last.b
  /\ \E t \in Alive : /\ ~empty(m_impl, t)
                      /\ get_leftmost(m_impl, t) # get_root(m_impl, t)
                      /\ m_impl[t].left = Hdr(t)
                      /\ empty(last.pre.impl, t)


\* Tree t is in state s as the header record h says, with the parent link
\* of its root at its own header.
SameTree(s, t, h) ==
  /\ s.impl[t] = h
  /\ IsNode(s.impl[t].parent) => s.node[s.impl[t].parent].parent = Hdr(t)

\* C23: swap is its own inverse and harmless on self. After a.swap(b), a
\* second a.swap(b) gives both trees the rank, comparator, allocator, root,
\* leftmost, rightmost and root-parent link they had before the first; and
\* a.swap(a) leaves a as it was.
C23_SwapTwiceRestores ==
  last.op = "swap"
  => LET now  == [impl |-> m_impl, node |-> node]
         back == swap(now, last.a, last.b)
     IN /\ SameTree(back, last.a, last.pre.impl[last.a])
        /\ SameTree(back, last.b, last.pre.impl[last.b])
        /\ last.a = last.b => SameTree(now, last.a, last.pre.impl[last.a])

\* The first of two swaps of a tree with nodes and an empty tree with other
\* collaborators has been made.
C23_Witness ==
  /\ last.op = "swap" /\ last.a # last.b
  /\ empty(m_impl, last.b) /\ ~empty(m_impl, last.a)
  /\ get_leftmost(m_impl, last.a) # get_rightmost(m_impl, last.a)
  /\ m_impl[last.a].compare # m_impl[last.b].compare


\* The dimension an equal iterator records at node n: rank - 1 at the
\* header, and the depth modulo the rank at a node, so that the root has
\* dimension 0 and a child the dimension after its parent's.
RecordedDim(T, n) == IF n = KHdr THEN T.rank - 1 ELSE Axis(T, n)

\* C22: on an empty container equal_begin(model) is equal_end(model) for
\* every model; equal_end is at the header with dimension rank - 1;
\* equal_begin on a non-empty container starts at the root with dimension 0;
\* so the dimension of a child is (dimension of its parent + 1) mod rank,
\* the header counted as the parent of the root.
C22_BeginEndDimensions ==
  /\ it = NoIter
       => /\ \A model \in Keys(kd.rank) :
               LET b == equal_begin(kd, model)
                   e == equal_end(kd, model)
               IN /\ e = Pos(KHdr, kd.rank - 1)
                  /\ kd.root = KHdr => b = e
                  /\ b.dim = RecordedDim(kd, b.node)
          /\ kd.root # KHdr
               => equal_begin(kd, const_key(kd, kd.root)) = Pos(kd.root, 0)
  /\ it.kind = "equal"
       => /\ it.dim = RecordedDim(kd, it.node)
          /\ it.node # KHdr
               => it.dim = incr_dim(kd.rank,
                                    RecordedDim(kd, kd.link[it.node].parent))

C22_Witness ==
  /\ it.kind = "equal" /\ it.op = "begin"
  /\ kd.size = 0 /\ kd.rank = 2
  /\ it.node = KHdr /\ it.dim = 1

================================================================================
